---------------------------- MODULE Spec2Model ----------------------------
(***************************************************************************)
(* A model of src/src/messageobj.c: the format scanner BuildArgArray, the  *)
(* message assembler tidyMessageCreateInitV with its observer dispatch,    *)
(* tidyMessageRelease, and the argument iteration / getter API.            *)
(*                                                                         *)
(* Strings are sequences of one-character strings.  A C string of length n *)
(* holds its characters at the 0-based positions 0..n-1 and the terminator *)
(* NUL at position n.  Builds with assert() compiled in are modelled.      *)
(***************************************************************************)
EXTENDS Integers, Sequences, FiniteSets, TLC

VARIABLES
    ptrSize,    \* sizeof(void *) = sizeof(size_t) of the build: 4 or 8
    pieces,     \* how the caller composed the format string (input, ghost)
    fmt,        \* BuildArgArray's fmt: the characters before the terminator
    ap,         \* the caller's variadic arguments, in order
    pc,         \* position of the program
    number,     \* BuildArgArray: number
    cn,         \* BuildArgArray: cn
    p,          \* BuildArgArray: p, as a 0-based offset into fmt
    rv,         \* BuildArgArray: *rv
    nas,        \* BuildArgArray: the array nas[0..number-1], here 1..number
    ret,        \* BuildArgArray: the pointer returned ("NULL" or "nas")
    apPos,      \* number of va_arg() pulls BuildArgArray made on ap
    maxRead,    \* highest offset of fmt any pass has read (-1: none)
    heap,       \* per buffer: allocations and frees through the allocator
    log,        \* history: classifications, pulls and observer calls
    doc,        \* the document: configuration and registered observers
    inp,        \* tidyMessageCreateInitV's parameters code, line, column, level
    msg,        \* the TidyMessageImpl record under construction
    iter,       \* the caller's TidyIterator
    obs         \* what the last accessor call did and returned

vars == << ptrSize, pieces, fmt, ap, pc, number, cn, p, rv, nas, ret, apPos,
           maxRead, heap, log, doc, inp, msg, iter, obs >>

scanVars == << number, cn, p, rv, nas, ret, apPos, maxRead >>
inputVars == << ptrSize, pieces, fmt, ap, doc, inp >>

---------------------------------------------------------------------------
(* Bounds of the model.                                                    *)

\* longest format string composed of several pieces
MaxPieces == 3
\* number of different argument lists a caller passes
NumArgSources == 2

---------------------------------------------------------------------------
(* Program constants and platform.                                         *)

FORMAT_LENGTH == 21
sizeMessageBuf == 2048
SizeofInt == 4

NUL == "NUL"
NULL == "NULL"
\* a limb, offset or length of allocated memory that was never written
Indet == -99

(* Integer values are bit patterns: little-endian sequences of 16-bit      *)
(* limbs, 1 limb for a 16-bit type, 2 for 32 bits, 4 for 64 bits.  The     *)
(* union printfArg.u is 8 bytes, 4 limbs; a limb never written is Indet.   *)
Limbs(bytes) == bytes \div 2

\* the low n limbs of a pattern: conversion to a narrower integer type
Trunc(b, n) == SubSeq(b, 1, n)

\* zero extension of a pattern to n limbs: an unsigned value widened
ZExt(b, n) == [i \in 1..n |-> IF i <= Len(b) THEN b[i] ELSE 0]

IsNegative(b) == b[Len(b)] >= 32768

\* sign extension of a pattern to n limbs: a signed value widened
SExt(b, n) ==
    [i \in 1..n |-> IF i <= Len(b) THEN b[i]
                    ELSE IF IsNegative(b) THEN 65535 ELSE 0]

\* the unsigned value of pattern b is at most INT_MAX (limits.h, int of
\* SizeofInt bytes): no bit at or above bit 31 is set
LeqIntMax(b) ==
    \A i \in 1..Len(b) :
        /\ i = Limbs(SizeofInt) => b[i] < 32768
        /\ i > Limbs(SizeofInt) => b[i] = 0

IsDigit(c) == c \in {"0", "1", "2", "3", "4", "5", "6", "7", "8", "9"}

\* *(f + i) for a C string f: its characters, then the terminator; what lies
\* behind the terminator is not part of the string
Ch(f, i) ==
    IF i < Len(f) THEN f[i + 1]
    ELSE IF i = Len(f) THEN NUL
    ELSE "?"

Max(a, b) == IF a >= b THEN a ELSE b

---------------------------------------------------------------------------
(* BuildArgArray, first pass (lines 574-586).                              *)

\* what may lie in memory behind the terminator of fmt: nothing readable,
\* a zero byte, or other bytes followed by a zero byte
Tails == { << >>, << NUL >>, << "a", NUL >>, << "%", "d", NUL >> }

\* The loop of lines 577-586 over the readable bytes mem, from offset q with
\* n specifiers counted.  fault: the loop read outside the readable bytes.
RECURSIVE CountPass(_, _, _)
CountPass(mem, q, n) ==
    IF q >= Len(mem) THEN [number |-> n, p |-> q + 1, fault |-> TRUE]
    ELSE LET c == mem[q + 1]
         IN  IF c = NUL THEN [number |-> n, p |-> q + 1, fault |-> FALSE]
             ELSE IF c # "%" THEN CountPass(mem, q + 1, n)
             ELSE IF q + 1 >= Len(mem)
                  THEN [number |-> n, p |-> q + 2, fault |-> TRUE]
             ELSE IF mem[q + 2] = "%" THEN CountPass(mem, q + 2, n)
             ELSE CountPass(mem, q + 2, n + 1)

FirstPass ==
    /\ pc = "pass1"
    /\ \E tail \in Tails :
          LET r == CountPass(fmt \o << NUL >> \o tail, 0, 0)
          IN  /\ number' = r.number
              /\ p' = r.p
              /\ maxRead' = Max(maxRead, r.p - 1)
              /\ pc' = IF r.fault THEN "segv" ELSE "alloc"
    /\ rv' = 0
    /\ UNCHANGED << cn, nas, ret, apPos, heap, log, msg, iter, obs >>
    /\ UNCHANGED inputVars

---------------------------------------------------------------------------
(* BuildArgArray, lines 589-604: the early return and the allocation.      *)

\* TidyDocAlloc / TidyDocFree on the buffer named b.  The document allocator
\* ends the process when it is out of memory, so an allocation yields a buffer.
TidyDocAlloc(h, b) == [h EXCEPT ![b].allocs = @ + 1]
TidyDocFree(h, b) == IF b = NULL THEN h ELSE [h EXCEPT ![b].frees = @ + 1]

\* struct printfArg as the loop of lines 601-604 leaves it: the type set,
\* nothing else written (format: the characters copied into the buffer)
UnknownArg ==
    [type |-> "UNKNOWN", formatStart |-> Indet, formatLength |-> Indet,
     format |-> << >>, u |-> << Indet, Indet, Indet, Indet >>]

AllocArray ==
    /\ pc = "alloc"
    /\ IF number = 0
       THEN /\ ret' = NULL
            /\ pc' = "ret"
            /\ UNCHANGED << nas, heap, p >>
       ELSE /\ heap' = TidyDocAlloc(heap, "nas")
            /\ nas' = [i \in 1..number |-> UnknownArg]
            /\ p' = 0
            /\ pc' = "pass2"
            /\ UNCHANGED ret
    /\ UNCHANGED << number, cn, rv, apPos, maxRead, log, msg, iter, obs >>
    /\ UNCHANGED inputVars

---------------------------------------------------------------------------
(* BuildArgArray, second pass (lines 609-766), one specifier per step.     *)

\* Lines 610-616 from offset q: skip text and %% up to the next specifier.
\* end: the terminator was read.  Otherwise p is the value of the pointer
\* after the character that follows the % was read.
RECURSIVE NextSpecifier(_, _)
NextSpecifier(f, q) ==
    LET c == Ch(f, q)
    IN  IF c = NUL THEN [end |-> TRUE, p |-> q + 1]
        ELSE IF c # "%" THEN NextSpecifier(f, q + 1)
        ELSE IF Ch(f, q + 1) = "%" THEN NextSpecifier(f, q + 2)
        ELSE [end |-> FALSE, p |-> q + 2]

\* while ((c >= '0') && (c <= '9')) c = *p++;  (lines 629-632, 644-647)
\* The current character c is always the one before the pointer.
RECURSIVE SkipDigits(_, _)
SkipDigits(f, q) == IF IsDigit(Ch(f, q - 1)) THEN SkipDigits(f, q + 1) ELSE q

\* lines 635-648: the pointer after the precision, star: precision is '*'
Precision(f, q) ==
    IF Ch(f, q - 1) = "."
    THEN IF Ch(f, q) = "*" THEN [star |-> TRUE, p |-> q + 1]
         ELSE [star |-> FALSE, p |-> SkipDigits(f, q + 1)]
    ELSE [star |-> FALSE, p |-> q]

\* lines 654-684: the type the length modifier selects and the pointer after it
SizeModifier(f, q, psize) ==
    LET c == Ch(f, q - 1)
    IN  IF c = "h" THEN [type |-> "INT16", p |-> q + 1]
        ELSE IF c = "L" THEN [type |-> "INT64", p |-> q + 1]
        ELSE IF c = "l"
             THEN IF Ch(f, q) = "l" THEN [type |-> "INT64", p |-> q + 2]
                  ELSE [type |-> "INT32", p |-> q + 1]
        ELSE IF c = "z"
             THEN [type |-> IF psize = 4 THEN "INT32"
                            ELSE IF psize = 8 THEN "INT64" ELSE "UNKNOWN",
                   p |-> q + 1]
        ELSE [type |-> "INTN", p |-> q]

\* ConversionType with the case e, f, g left without its assignment
ConversionTypeNoDouble(c, t, psize) ==
    IF c \in {"d", "c", "i", "o", "u", "x", "X", "e", "f", "g"} THEN t
    ELSE IF c = "p"
         THEN IF psize = 4 THEN "UINT32"
              ELSE IF psize = 8 THEN "UINT64"
              ELSE IF psize = SizeofInt THEN "UINTN" ELSE "UNKNOWN"
    ELSE IF c = "s" THEN "STRING"
    ELSE IF c = "n" THEN "INTSTR"
    ELSE "UNKNOWN"

\* lines 687-742: the type after the switch on the conversion character c,
\* given the type t the length modifier selected
ConversionType(c, t, psize) ==
    IF c \in {"d", "c", "i", "o", "u", "x", "X"} THEN t
    ELSE IF c \in {"e", "f", "g"} THEN "DOUBLE"
    ELSE IF c = "p"
         THEN IF psize = 4 THEN "UINT32"
              ELSE IF psize = 8 THEN "UINT64"
              ELSE IF psize = SizeofInt THEN "UINTN" ELSE "UNKNOWN"
    ELSE IF c = "s" THEN "STRING"
    ELSE IF c = "n" THEN "INTSTR"
    ELSE "UNKNOWN"

\* strncpy(dst, f + start, n): the characters up to the terminator, then
\* NUL padding up to n characters
Strncpy(f, start, n) ==
    [i \in 1..n |-> IF start + i - 1 < Len(f) THEN f[start + i] ELSE NUL]

\* Lines 618-765 for the specifier whose first character after the % is just
\* before offset q.  fail: *rv = -1 and break.  counted: cn was incremented.
ClassifySpecifier(f, q, psize) ==
    LET pos == q - 2
        q1 == SkipDigits(f, q)
        pr == Precision(f, q1)
        sz == SizeModifier(f, pr.p, psize)
        ty == ConversionType(Ch(f, sz.p - 1), sz.type, psize)
        len == sz.p - pos
    IN  IF Ch(f, q - 1) = "*" \/ pr.star
        THEN [fail |-> TRUE, counted |-> FALSE, p |-> IF pr.star THEN pr.p ELSE q,
              arg |-> UnknownArg]
        ELSE [fail |-> len >= FORMAT_LENGTH \/ ty = "UNKNOWN",
              counted |-> TRUE,
              p |-> sz.p,
              arg |-> [type |-> ty, formatStart |-> pos, formatLength |-> len,
                       format |-> IF len >= FORMAT_LENGTH THEN << >>
                                  ELSE Strncpy(f, pos, len),
                       u |-> UnknownArg.u]]

SecondPassStep ==
    /\ pc = "pass2"
    /\ LET nx == NextSpecifier(fmt, p)
           r == ClassifySpecifier(fmt, nx.p, ptrSize)
       IN  IF nx.end
           THEN /\ p' = nx.p
                /\ maxRead' = Max(maxRead, nx.p - 1)
                /\ pc' = "pass3"
                /\ UNCHANGED << cn, nas, rv, log >>
           ELSE /\ p' = r.p
                /\ maxRead' = Max(maxRead, r.p - 1)
                /\ cn' = IF r.counted THEN cn + 1 ELSE cn
                /\ nas' = IF r.counted THEN [nas EXCEPT ![cn + 2] = r.arg] ELSE nas
                /\ rv' = IF r.fail THEN -1 ELSE rv
                /\ pc' = IF r.fail THEN "pass3" ELSE "pass2"
                /\ log' = Append(log, << "classify", ~r.fail >>)
    /\ UNCHANGED << number, ret, apPos, heap, msg, iter, obs >>
    /\ UNCHANGED inputVars

---------------------------------------------------------------------------
(* BuildArgArray, third pass (lines 771-842), one descriptor per step.     *)

\* ThirdPassEntry without the test of *rv: the values are pulled anyway
ThirdPassEntryNoCheck ==
    /\ pc = "pass3"
    /\ cn' = 0
    /\ pc' = "consume"
    /\ UNCHANGED << heap, ret >>
    /\ UNCHANGED << number, p, rv, nas, apPos, maxRead, log, msg, iter, obs >>
    /\ UNCHANGED inputVars

\* ThirdPassEntry that returns on a failure without freeing the array
ThirdPassEntryLeak ==
    /\ pc = "pass3"
    /\ IF rv < 0
       THEN /\ ret' = NULL
            /\ pc' = "ret"
            /\ UNCHANGED << cn, heap >>
       ELSE /\ cn' = 0
            /\ pc' = "consume"
            /\ UNCHANGED << heap, ret >>
    /\ UNCHANGED << number, p, rv, nas, apPos, maxRead, log, msg, iter, obs >>
    /\ UNCHANGED inputVars

ThirdPassEntry ==
    /\ pc = "pass3"
    /\ IF rv < 0
       THEN /\ heap' = TidyDocFree(heap, "nas")
            /\ ret' = NULL
            /\ pc' = "ret"
            /\ UNCHANGED cn
       ELSE /\ cn' = 0
            /\ pc' = "consume"
            /\ UNCHANGED << heap, ret >>
    /\ UNCHANGED << number, p, rv, nas, apPos, maxRead, log, msg, iter, obs >>
    /\ UNCHANGED inputVars

\* the limbs of the union member that the switch of lines 786-836 writes for
\* a descriptor of type t: int, unsigned, int32_t, uint32_t (4 bytes),
\* int64_t, uint64_t, double (8 bytes), char* and size_t* (pointer size)
MemberLimbs(t, psize) ==
    IF t \in {"INT16", "UINT16", "INTN", "UINTN"} THEN Limbs(SizeofInt)
    ELSE IF t \in {"INT32", "UINT32"} THEN 2
    ELSE IF t \in {"INT64", "UINT64", "DOUBLE"} THEN 4
    ELSE Limbs(psize)

\* nas[cn].u.<member> = va_arg(ap, <type of member>) for the argument v
StoreArg(u, t, v, psize) ==
    [i \in 1..4 |-> IF i <= MemberLimbs(t, psize) THEN v[i] ELSE u[i]]

KnownTypes ==
    {"INT16", "UINT16", "INTN", "UINTN", "INT32", "UINT32", "INT64", "UINT64",
     "STRING", "INTSTR", "DOUBLE"}

ThirdPassStep ==
    /\ pc = "consume"
    /\ cn < number
    /\ LET t == nas[cn + 1].type
       IN  IF t = "UNKNOWN"
           THEN /\ cn' = cn + 1
                /\ UNCHANGED << nas, apPos, log, heap, ret, rv, pc >>
           ELSE IF t \in KnownTypes
           THEN /\ nas' = [nas EXCEPT ![cn + 1].u =
                               StoreArg(@, t, ap[apPos + 1], ptrSize)]
                /\ apPos' = apPos + 1
                /\ log' = Append(log, << "pull", cn >>)
                /\ cn' = cn + 1
                /\ UNCHANGED << heap, ret, rv, pc >>
           ELSE /\ heap' = TidyDocFree(heap, "nas")
                /\ rv' = -1
                /\ ret' = NULL
                /\ pc' = "ret"
                /\ UNCHANGED << nas, apPos, log, cn >>
    /\ UNCHANGED << number, p, maxRead, msg, iter, obs >>
    /\ UNCHANGED inputVars

\* lines 841-842
ReturnArray ==
    /\ pc = "consume"
    /\ cn >= number
    /\ rv' = number
    /\ ret' = "nas"
    /\ pc' = "ret"
    /\ UNCHANGED << number, cn, p, nas, apPos, maxRead, heap, log, msg, iter, obs >>
    /\ UNCHANGED inputVars

---------------------------------------------------------------------------
(* Format strings and argument lists the callers pass.                     *)

Piece(k, fl, w, pr, m, c) ==
    [kind |-> k, flag |-> fl, width |-> w, prec |-> pr, mod |-> m, conv |-> c]

Lit(c) == Piece("lit", << >>, << >>, << >>, << >>, c)
Esc == Piece("esc", << >>, << >>, << >>, << >>, "%")
Lone == Piece("lone", << >>, << >>, << >>, << >>, "%")
Specifier(w, m, c) == Piece("spec", << >>, w, << >>, m, c)

PieceText(x) ==
    IF x.kind = "lit" THEN << x.conv >>
    ELSE IF x.kind = "esc" THEN << "%", "%" >>
    ELSE IF x.kind = "lone" THEN << "%" >>
    ELSE << "%" >> \o x.flag \o x.width \o x.prec \o x.mod \o << x.conv >>

RECURSIVE Flatten(_)
Flatten(ps) == IF ps = << >> THEN << >> ELSE PieceText(Head(ps)) \o Flatten(Tail(ps))

Zeros(n) == [i \in 1..n |-> "0"]

Mods == { << >>, << "h" >>, << "l" >>, << "l", "l" >>, << "L" >>, << "z" >> }
GoodConvs == {"d", "i", "o", "u", "x", "X", "c", "e", "f", "g", "p", "s", "n"}
BadConvs == {"S", "C", "E", "G", "q"}
Widths == { << >>, << "5" >>, << "*" >>, Zeros(FORMAT_LENGTH - 3), Zeros(FORMAT_LENGTH - 2) }
Precs == { << >>, << "." >>, << ".", "2" >>, << ".", "*" >> }
FlagChars == {"-", "+", " ", "#"}

\* every specifier without flag, and a few with a flag
SingleSpecifiers ==
    { Piece("spec", << >>, w, pr, m, c) :
        w \in Widths, pr \in Precs, m \in Mods, c \in GoodConvs \cup BadConvs }
    \cup
    { Piece("spec", << fl >>, w, << >>, << >>, c) :
        fl \in FlagChars, w \in { << >>, << "5" >> }, c \in {"d", "s", "x"} }

\* the pieces of the composed format strings
SmallPieces ==
    { Lit("a"), Esc, Lone,
      Specifier(<< >>, << >>, "d"), Specifier(<< >>, << >>, "s"),
      Specifier(<< >>, << "l", "l" >>, "d"),
      Specifier(<< "*" >>, << >>, "d"), Specifier(<< >>, << >>, "q") }

ScanFormats ==
    { << x >> : x \in SingleSpecifiers }
    \cup UNION { [1..n -> SmallPieces] : n \in 0..MaxPieces }

\* values a caller passes, as 64-bit patterns: 5, -1, 40000, 2^31, 2^32 + 5
ArgValues ==
    << << 5, 0, 0, 0 >>, << 65535, 65535, 65535, 65535 >>, << 40000, 0, 0, 0 >>,
       << 0, 32768, 0, 0 >>, << 5, 0, 1, 0 >> >>

\* the k-th argument list: one value for every specifier a format can hold
ArgSource(k) ==
    [i \in 1..MaxPieces |-> ArgValues[((i - 1 + 3 * (k - 1)) % Len(ArgValues)) + 1]]

ArgSources == { ArgSource(k) : k \in 1..NumArgSources }

---------------------------------------------------------------------------
(* The heap and the parts of the state BuildArgArray does not touch.       *)

\* buffers the assembler allocates, and objects it only refers to
OwnedBuffers ==
    {"result", "nas", "messageDefault", "message", "messagePosDefault",
     "messagePos", "messageOutputDefault", "messageOutput"}
BorrowedObjects ==
    {"tidyDoc", "tidyNode", "messageKey", "messageFormatDefault", "messageFormat",
     "messagePrefixDefault", "messagePrefix"}

EmptyHeap == [b \in OwnedBuffers \cup BorrowedObjects |-> [allocs |-> 0, frees |-> 0]]

\* a string option that is not set (cfgStr gives a null pointer) or set
NullStr == [null |-> TRUE, text |-> << >>]
Str(t) == [null |-> FALSE, text |-> t]

NoDoc == [emacs |-> FALSE, emacsFile |-> NullStr, reportFilter |-> FALSE,
          reportCallback |-> FALSE, messageCallback |-> FALSE]
NoInput == [code |-> "none", line |-> 0, column |-> 0, level |-> 0, longArg |-> FALSE]

\* the fields of TidyMessageImpl that tidyMessageCreateInitV computes
DerivedFields ==
    {"arguments", "argcount", "messageKey", "messageFormatDefault", "messageFormat",
     "messageDefault", "message", "messagePosDefault", "messagePos",
     "messagePrefixDefault", "messagePrefix", "messageOutputDefault",
     "messageOutput"}

\* a record not yet allocated: no field written (set: the fields written)
NoMessage ==
    [set |-> {}, line |-> 0, column |-> 0, level |-> 0,
     arguments |-> NULL, argcount |-> Indet,
     messageDefault |-> << >>, message |-> << >>,
     messagePosDefault |-> << >>, messagePos |-> << >>,
     messagePrefixDefault |-> << >>, messagePrefix |-> << >>,
     messageOutputDefault |-> << >>, messageOutput |-> << >>,
     allowMessage |-> TRUE]
\* no accessor called yet.  fn, argNum: the last call; outcome: "ok", "assert"
\* (a failed assertion), "segv" or "garbage" (a read outside the array);
\* value, text: what it returned; items: the indices the iteration returned
NoObs ==
    [fn |-> "none", argNum |-> 0, outcome |-> "none", value |-> << >>, text |-> << >>,
     iterating |-> FALSE, items |-> << >>]

\* BuildArgArray called on its own
InitScan ==
    /\ ptrSize \in {4, 8}
    /\ pieces \in ScanFormats
    /\ fmt = Flatten(pieces)
    /\ ap \in ArgSources
    /\ pc = "pass1"
    /\ number = 0
    /\ cn = -1
    /\ p = 0
    /\ rv = Indet
    /\ nas = << >>
    /\ ret = NULL
    /\ apPos = 0
    /\ maxRead = -1
    /\ heap = EmptyHeap
    /\ log = << >>
    /\ doc = NoDoc
    /\ inp = NoInput
    /\ msg = NoMessage
    /\ iter = 0
    /\ obs = NoObs

BuildArgArray ==
    \/ FirstPass
    \/ AllocArray
    \/ SecondPassStep
    \/ ThirdPassEntry
    \/ ThirdPassStep
    \/ ReturnArray

SpecScan == InitScan /\ [][BuildArgArray]_vars

---------------------------------------------------------------------------
(* Collaborators of the assembler: severity levels, localization, bounded  *)
(* formatting.                                                             *)

TidyWarning == 351
TidyFatal == 356
TidyDialogueSummary == 357

Min(a, b) == IF a <= b THEN a ELSE b

\* tmbsnprintf / tmbvsnprintf into a buffer of size units: the text, cut to
\* what the buffer holds beside its terminator
Snprintf(size, text) == SubSeq(text, 1, Min(Len(text), size - 1))

DigitChar(d) == << "0", "1", "2", "3", "4", "5", "6", "7", "8", "9" >>[d + 1]

\* %d
RECURSIVE Dec(_)
Dec(n) ==
    IF n < 0 THEN << "-" >> \o Dec(0 - n)
    ELSE IF n < 10 THEN << DigitChar(n) >>
    ELSE Dec(n \div 10) \o << DigitChar(n % 10) >>

\* tidyDefaultString(LINE_COLUMN_STRING), tidyLocalizedString(LINE_COLUMN_STRING)
\* with line and column substituted
LineColumnDefault(line, column) ==
    << "l", "i", "n", "e", " " >> \o Dec(line) \o << " ", "c", "o", "l", " " >>
        \o Dec(column) \o << " ", "-", " " >>
LineColumnLocalized(line, column) ==
    << "l", "i", "g", "n", "e", " " >> \o Dec(line) \o << " ", "c", "o", "l", " " >>
        \o Dec(column) \o << " ", "-", " " >>

\* tidyDefaultString(level), tidyLocalizedString(level): the severity prefix
PrefixDefault(level) ==
    IF level = TidyWarning THEN << "W", "a", "r", "n", ":", " " >>
    ELSE IF level = TidyFatal THEN << "P", "a", "n", "i", "c", ":", " " >>
    ELSE << "S", "u", "m", ":", " " >>
PrefixLocalized(level) ==
    IF level = TidyWarning THEN << "A", "v", "e", "r", "t", ":", " " >>
    ELSE IF level = TidyFatal THEN << "P", "a", "n", "i", "q", "u", "e", ":", " " >>
    ELSE << "R", "e", "s", ":", " " >>

\* the text vsnprintf produces for one argument: a short value, or a long
\* excerpt of the document
ArgText(long) == IF long THEN [i \in 1..(sizeMessageBuf + 10) |-> "x"] ELSE << "4", "2" >>

\* the text vsnprintf produces for the format composed of the pieces ps
RECURSIVE RenderFormat(_, _)
RenderFormat(ps, long) ==
    IF ps = << >> THEN << >>
    ELSE LET x == Head(ps)
         IN  (IF x.kind = "lit" THEN << x.conv >>
              ELSE IF x.kind \in {"esc", "lone"} THEN << "%" >>
              ELSE ArgText(long)) \o RenderFormat(Tail(ps), long)

\* tidyLocalizedString(code): the localized format has the specifiers of the
\* default format and its own literal text
Localize(ps) == [i \in 1..Len(ps) |-> IF ps[i].kind = "lit" THEN [ps[i] EXCEPT !.conv = "b"] ELSE ps[i]]

---------------------------------------------------------------------------
(* tidyMessageCreateInitV (lines 86-199).                                  *)

\* lines 94-112: the record is allocated, the known fields are set and
\* BuildArgArray is called on the default format
CreateBegin ==
    /\ pc = "create"
    /\ heap' = TidyDocAlloc(heap, "result")
    /\ msg' = [msg EXCEPT !.set = {"tidyDoc", "tidyNode", "code", "line", "column", "level"},
                          !.line = inp.line, !.column = inp.column, !.level = inp.level]
    /\ pc' = "pass1"
    /\ UNCHANGED << log, iter, obs >>
    /\ UNCHANGED scanVars
    /\ UNCHANGED inputVars

\* SelectPattern with the two tests in the other order
SelectPatternPositionLast(line, column, level) ==
    IF line > 0 /\ column > 0 THEN << "%s", "%s", "%s" >>
    ELSE IF level > TidyFatal THEN << "%.0s", "%.0s", "%s" >>
    ELSE << "%.0s", "%s", "%s" >>

\* lines 150-156: the pattern, one directive per string
SelectPattern(line, column, level) ==
    IF level > TidyFatal THEN << "%.0s", "%.0s", "%s" >>
    ELSE IF line > 0 /\ column > 0 THEN << "%s", "%s", "%s" >>
    ELSE << "%.0s", "%s", "%s" >>

\* the text a pattern of three string directives produces: %s the string,
\* %.0s nothing
ApplyPattern(pattern, a, b, c) ==
    (IF pattern[1] = "%s" THEN a ELSE << >>)
        \o (IF pattern[2] = "%s" THEN b ELSE << >>)
        \o (IF pattern[3] = "%s" THEN c ELSE << >>)

\* lines 133-144: the position strings
PositionDefault(d, line, column) ==
    IF d.emacs /\ ~d.emacsFile.null
    THEN d.emacsFile.text \o << ":" >> \o Dec(line) \o << ":" >> \o Dec(column) \o << ":", " " >>
    ELSE LineColumnDefault(line, column)
PositionLocalized(d, line, column) ==
    IF d.emacs /\ ~d.emacsFile.null
    THEN d.emacsFile.text \o << ":" >> \o Dec(line) \o << ":" >> \o Dec(column) \o << ":", " " >>
    ELSE LineColumnLocalized(line, column)

AllocAll(h, bs) == [b \in DOMAIN h |-> IF b \in bs THEN [h[b] EXCEPT !.allocs = @ + 1] ELSE h[b]]

\* lines 112-169: BuildArgArray has returned; every derived field is computed
CreateRender ==
    /\ pc = "ret"
    /\ LET mDefault == Snprintf(sizeMessageBuf, RenderFormat(pieces, inp.longArg))
           mLocal == Snprintf(sizeMessageBuf, RenderFormat(Localize(pieces), inp.longArg))
           posDefault == Snprintf(sizeMessageBuf, PositionDefault(doc, inp.line, inp.column))
           posLocal == Snprintf(sizeMessageBuf, PositionLocalized(doc, inp.line, inp.column))
           pattern == SelectPattern(inp.line, inp.column, inp.level)
       IN  msg' = [msg EXCEPT
                     !.set = @ \cup DerivedFields,
                     !.arguments = ret,
                     !.argcount = rv,
                     !.messageDefault = mDefault,
                     !.message = mLocal,
                     !.messagePosDefault = posDefault,
                     !.messagePos = posLocal,
                     !.messagePrefixDefault = PrefixDefault(inp.level),
                     !.messagePrefix = PrefixLocalized(inp.level),
                     !.messageOutputDefault =
                         Snprintf(sizeMessageBuf,
                                  ApplyPattern(pattern, posDefault, PrefixDefault(inp.level), mDefault)),
                     !.messageOutput =
                         Snprintf(sizeMessageBuf,
                                  ApplyPattern(pattern, posLocal, PrefixLocalized(inp.level), mLocal)),
                     !.allowMessage = TRUE]
    /\ heap' = AllocAll(heap, {"messageDefault", "message", "messagePosDefault",
                               "messagePos", "messageOutputDefault", "messageOutput"})
    /\ pc' = "filter"
    /\ UNCHANGED << log, iter, obs >>
    /\ UNCHANGED scanVars
    /\ UNCHANGED inputVars

\* an observer is called and returns the verdict v
Observe(name, v) ==
    /\ log' = Append(log, << "call", name, v, DerivedFields \subseteq msg.set >>)
    /\ msg' = [msg EXCEPT !.allowMessage = @ /\ v]

\* CallReportCallback that skips the observer once a verdict was false
CallReportCallbackShortCircuit ==
    /\ pc = "callback"
    /\ \E v \in BOOLEAN :
          IF msg.level <= TidyFatal /\ doc.reportCallback /\ msg.allowMessage
          THEN Observe("reportCallback", v)
          ELSE UNCHANGED << log, msg >>
    /\ pc' = "msgcb"
    /\ UNCHANGED << heap, iter, obs >>
    /\ UNCHANGED scanVars
    /\ UNCHANGED inputVars

\* CallReportFilter without the test of the level
CallReportFilterAnyLevel ==
    /\ pc = "filter"
    /\ \E v \in BOOLEAN :
          IF doc.reportFilter
          THEN Observe("reportFilter", v)
          ELSE UNCHANGED << log, msg >>
    /\ pc' = "callback"
    /\ UNCHANGED << heap, iter, obs >>
    /\ UNCHANGED scanVars
    /\ UNCHANGED inputVars

\* lines 175-178
CallReportFilter ==
    /\ pc = "filter"
    /\ \E v \in BOOLEAN :
          IF msg.level <= TidyFatal /\ doc.reportFilter
          THEN Observe("reportFilter", v)
          ELSE UNCHANGED << log, msg >>
    /\ pc' = "callback"
    /\ UNCHANGED << heap, iter, obs >>
    /\ UNCHANGED scanVars
    /\ UNCHANGED inputVars

\* lines 183-189
CallReportCallback ==
    /\ pc = "callback"
    /\ \E v \in BOOLEAN :
          IF msg.level <= TidyFatal /\ doc.reportCallback
          THEN Observe("reportCallback", v)
          ELSE UNCHANGED << log, msg >>
    /\ pc' = "msgcb"
    /\ UNCHANGED << heap, iter, obs >>
    /\ UNCHANGED scanVars
    /\ UNCHANGED inputVars

\* lines 193-198: the last observer, and the return of the record
CallMessageCallback ==
    /\ pc = "msgcb"
    /\ \E v \in BOOLEAN :
          IF doc.messageCallback
          THEN Observe("messageCallback", v)
          ELSE UNCHANGED << log, msg >>
    /\ pc' = "created"
    /\ UNCHANGED << heap, iter, obs >>
    /\ UNCHANGED scanVars
    /\ UNCHANGED inputVars

RECURSIVE FreeAll(_, _)
FreeAll(h, ptrs) ==
    IF ptrs = << >> THEN h ELSE FreeAll(TidyDocFree(h, Head(ptrs)), Tail(ptrs))

\* tidyMessageRelease (lines 256-267) on the record returned
TidyMessageRelease ==
    /\ pc = "created"
    /\ heap' = FreeAll(heap, << msg.arguments, "messageDefault", "message",
                                "messagePosDefault", "messagePos",
                                "messageOutputDefault", "messageOutput" >>)
    /\ pc' = "released"
    /\ UNCHANGED << log, msg, iter, obs >>
    /\ UNCHANGED scanVars
    /\ UNCHANGED inputVars

---------------------------------------------------------------------------
(* The assembler and its callers.                                          *)

\* the messages of the localization table: "%da%s", "a%%", "%*d"
AssemblerFormats ==
    { << Specifier(<< >>, << >>, "d"), Lit("a"), Specifier(<< >>, << >>, "s") >>,
      << Lit("a"), Esc >>,
      << Specifier(<< "*" >>, << >>, "d") >> }

Levels == {TidyWarning, TidyFatal, TidyDialogueSummary}

Documents ==
    { [emacs |-> e.on, emacsFile |-> e.file, reportFilter |-> f, reportCallback |-> c,
       messageCallback |-> m] :
        e \in { [on |-> FALSE, file |-> NullStr], [on |-> TRUE, file |-> NullStr],
                [on |-> TRUE, file |-> Str(<< "f", ".", "h" >>)] },
        f \in BOOLEAN, c \in BOOLEAN, m \in BOOLEAN }

Positions == { << 5, 10 >>, << 0, 0 >>, << 5, 0 >>, << -1, 10 >> }

\* the state before tidyMessageCreateInitV is called with a message of the
\* formats fs and arguments of as, on a document of ds, at a level of ls and
\* a position of poss
InitCreate(fs, as, ds, ls, poss, longs) ==
    /\ ptrSize \in {4, 8}
    /\ pieces \in fs
    /\ fmt = Flatten(pieces)
    /\ ap \in as
    /\ doc \in ds
    /\ \E pos \in poss, l \in ls, long \in longs :
          /\ long => \E i \in 1..Len(pieces) : pieces[i].kind = "spec"
          /\ inp = [code |-> "code", line |-> pos[1], column |-> pos[2], level |-> l,
                    longArg |-> long]
    /\ pc = "create"
    /\ number = 0
    /\ cn = -1
    /\ p = 0
    /\ rv = Indet
    /\ nas = << >>
    /\ ret = NULL
    /\ apPos = 0
    /\ maxRead = -1
    /\ heap = EmptyHeap
    /\ log = << >>
    /\ msg = NoMessage
    /\ iter = 0
    /\ obs = NoObs

Init == InitCreate(AssemblerFormats, {ArgSource(1)}, Documents, Levels, Positions, BOOLEAN)

Next ==
    \/ CreateBegin
    \/ FirstPass
    \/ AllocArray
    \/ SecondPassStep
    \/ ThirdPassEntry
    \/ ThirdPassStep
    \/ ReturnArray
    \/ CreateRender
    \/ CallReportFilter
    \/ CallReportCallback
    \/ CallMessageCallback
    \/ TidyMessageRelease

Spec == Init /\ [][Next]_vars

---------------------------------------------------------------------------
(* Message argument interrogation (lines 352-543) on the record returned.  *)

\* itemIndex <= message.argcount: the int is converted to size_t, so a
\* negative argcount compares as a huge value
LeqArgcount(itemIndex, argcount) == argcount < 0 \/ itemIndex <= argcount

\* NextArgument whose last comparison is strict
NextArgumentStrict(argcount, itemIndex) ==
    LET step == itemIndex >= 1 /\ LeqArgcount(itemIndex, argcount)
        idx == IF step THEN itemIndex + 1 ELSE itemIndex
    IN  [item |-> IF step THEN itemIndex - 1 ELSE 0,
         iter |-> IF argcount >= 0 /\ idx < argcount THEN idx ELSE 0]

\* getNextMessageArgument, lines 362-379: the item returned and the new *iter
NextArgument(argcount, itemIndex) ==
    LET step == itemIndex >= 1 /\ LeqArgcount(itemIndex, argcount)
        idx == IF step THEN itemIndex + 1 ELSE itemIndex
    IN  [item |-> IF step THEN itemIndex - 1 ELSE 0,
         iter |-> IF LeqArgcount(idx, argcount) THEN idx ELSE 0]

\* lines 352-358
GetMessageArguments ==
    /\ pc = "created"
    /\ iter' = IF msg.argcount > 0 THEN 1 ELSE 0
    /\ obs' = [NoObs EXCEPT !.fn = "getMessageArguments", !.outcome = "ok",
                            !.iterating = TRUE]
    /\ UNCHANGED << pc, heap, log, msg >>
    /\ UNCHANGED scanVars
    /\ UNCHANGED inputVars

\* lines 360-380, called while the cursor is not 0
GetNextMessageArgument ==
    /\ pc = "created"
    /\ obs.iterating
    /\ iter # 0
    /\ LET r == NextArgument(msg.argcount, iter)
       IN  /\ iter' = r.iter
           /\ obs' = [obs EXCEPT !.fn = "getNextMessageArgument", !.argNum = r.item,
                                 !.outcome = "ok", !.value = << >>, !.text = << >>,
                                 !.items = Append(@, r.item)]
    /\ UNCHANGED << pc, heap, log, msg >>
    /\ UNCHANGED scanVars
    /\ UNCHANGED inputVars

\* indices a caller passes to a getter
ArgIndexes == -1..(MaxPieces + 1)

\* message.arguments[argNum] lies in the array BuildArgArray returned
InArray(argNum) == msg.arguments = "nas" /\ argNum >= 0 /\ argNum < Len(nas)

\* the member of n limbs of the union u
Member(u, n) == SubSeq(u, 1, n)

\* what a getter that passed its assertions returns
Ok(v, t) == [outcome |-> "ok", value |-> v, text |-> t]
Failed(o) == [outcome |-> o, value |-> << >>, text |-> << >>]

\* getArgType, lines 383-389
GetArgTypeOf(a) == Ok(<< >>, << a.type >>)

\* getArgFormat, lines 392-398
GetArgFormatOf(a) == Ok(<< >>, a.format)

\* getArgValueString, lines 401-408
GetArgValueStringOf(a, psize) ==
    IF a.type = "STRING" THEN Ok(Member(a.u, Limbs(psize)), << >>) ELSE Failed("assert")

\* getArgValueDouble, lines 536-543
GetArgValueDoubleOf(a) ==
    IF a.type = "DOUBLE" THEN Ok(Member(a.u, 4), << >>) ELSE Failed("assert")

\* getArgValueUInt, lines 420-454: the switch and the final assertion
GetArgValueUIntOf(a) ==
    IF a.type = "UINTN" THEN Ok(Member(a.u, Limbs(SizeofInt)), << >>)
    ELSE IF a.type = "UINT16" /\ SizeofInt <= 2
         THEN Ok(Member(a.u, Limbs(SizeofInt)), << >>)
    ELSE IF a.type = "UINT32" /\ SizeofInt <= 4
         THEN Ok(Trunc(ZExt(Member(a.u, 2), 4), Limbs(SizeofInt)), << >>)
    ELSE IF a.type = "UINT64" /\ SizeofInt <= 8
         THEN Ok(Trunc(Member(a.u, 4), Limbs(SizeofInt)), << >>)
    ELSE Failed("assert")

\* getArgValueInt, lines 467-532: the switch and the final assertion
GetArgValueIntOf(a) ==
    IF a.type = "INTN" THEN Ok(Member(a.u, Limbs(SizeofInt)), << >>)
    ELSE IF a.type = "INT16" /\ SizeofInt <= 2
         THEN Ok(Member(a.u, Limbs(SizeofInt)), << >>)
    ELSE IF a.type = "INT32" /\ SizeofInt <= 4
         THEN Ok(Trunc(SExt(Member(a.u, 2), 4), Limbs(SizeofInt)), << >>)
    ELSE IF a.type = "INT64" /\ SizeofInt <= 8
         THEN Ok(Trunc(Member(a.u, 4), Limbs(SizeofInt)), << >>)
    ELSE IF a.type = "UINTN" /\ LeqIntMax(Member(a.u, Limbs(SizeofInt)))
         THEN Ok(Member(a.u, Limbs(SizeofInt)), << >>)
    ELSE IF a.type = "UINT16" /\ SizeofInt <= 2
         THEN Ok(Member(a.u, Limbs(SizeofInt)), << >>)
    ELSE IF a.type = "UINT32" /\ SizeofInt <= 4 /\ LeqIntMax(Member(a.u, 2))
         THEN Ok(Trunc(ZExt(Member(a.u, 2), 4), Limbs(SizeofInt)), << >>)
    ELSE IF a.type = "UINT64" /\ SizeofInt <= 8 /\ LeqIntMax(Member(a.u, 4))
         THEN Ok(Trunc(Member(a.u, 4), Limbs(SizeofInt)), << >>)
    ELSE Failed("assert")

\* the getter fn applied to the descriptor a
GetterOf(fn, a, psize) ==
    IF fn = "getArgType" THEN GetArgTypeOf(a)
    ELSE IF fn = "getArgFormat" THEN GetArgFormatOf(a)
    ELSE IF fn = "getArgValueString" THEN GetArgValueStringOf(a, psize)
    ELSE IF fn = "getArgValueUInt" THEN GetArgValueUIntOf(a)
    ELSE IF fn = "getArgValueInt" THEN GetArgValueIntOf(a)
    ELSE GetArgValueDoubleOf(a)

Getters ==
    {"getArgType", "getArgFormat", "getArgValueString", "getArgValueUInt",
     "getArgValueInt", "getArgValueDouble"}

\* A getter called with the index argNum: assert( argNum <= message.argcount ),
\* then the read of message.arguments[argNum]; outside the array the read
\* faults or yields whatever lies there (ub)
CallGetter(fn, argNum, ub) ==
    IF ~(argNum <= msg.argcount) THEN Failed("assert")
    ELSE IF ~InArray(argNum) THEN Failed(ub)
    ELSE GetterOf(fn, nas[argNum + 1], ptrSize)

\* a failed assertion and a fault end the process
GetArgument ==
    /\ pc = "created"
    /\ \E fn \in Getters, argNum \in ArgIndexes, ub \in {"segv", "garbage"} :
          LET r == CallGetter(fn, argNum, ub)
          IN  /\ obs' = [obs EXCEPT !.fn = fn, !.argNum = argNum, !.outcome = r.outcome,
                                    !.value = r.value, !.text = r.text]
              /\ pc' = IF r.outcome = "assert" THEN "abort"
                       ELSE IF r.outcome = "segv" THEN "segv" ELSE pc
    /\ UNCHANGED << heap, log, msg, iter >>
    /\ UNCHANGED scanVars
    /\ UNCHANGED inputVars

\* the messages whose arguments are interrogated: "%d%s%lld", "a%%", "%*d",
\* "%hd", "%lld", "%p", "%u", "%f", "%s", "%ld"
AccessorFormats ==
    { << Specifier(<< >>, << >>, "d"), Specifier(<< >>, << >>, "s"),
         Specifier(<< >>, << "l", "l" >>, "d") >>,
      << Lit("a"), Esc >>,
      << Specifier(<< "*" >>, << >>, "d") >> }
    \cup { << Specifier(<< >>, m, "d") >> : m \in { << "h" >>, << "l", "l" >>, << "l" >> } }
    \cup { << Specifier(<< >>, << >>, c) >> : c \in {"p", "u", "f", "s"} }

InitArgs ==
    InitCreate(AccessorFormats, ArgSources, {NoDoc}, {TidyWarning}, {<< 5, 10 >>}, {FALSE})

NextArgs ==
    \/ CreateBegin
    \/ FirstPass
    \/ AllocArray
    \/ SecondPassStep
    \/ ThirdPassEntry
    \/ ThirdPassStep
    \/ ReturnArray
    \/ CreateRender
    \/ CallReportFilter
    \/ CallReportCallback
    \/ CallMessageCallback
    \/ GetMessageArguments
    \/ GetNextMessageArgument
    \/ GetArgument

SpecArgs == InitArgs /\ [][NextArgs]_vars

---------------------------------------------------------------------------
(* Claims about BuildArgArray, checked under SpecScan.                      *)

IsSpec(x) == x.kind = "spec"

\* a specifier of the supported form: fixed width digits, fixed precision,
\* a length modifier, a supported conversion, text shorter than the buffer
SupportedSpecifier(x) ==
    /\ IsSpec(x)
    /\ x.flag = << >>
    /\ \A i \in 1..Len(x.width) : IsDigit(x.width[i])
    /\ x.prec # << >> => x.prec[1] = "." /\ \A i \in 2..Len(x.prec) : IsDigit(x.prec[i])
    /\ x.mod \in Mods
    /\ x.conv \in GoodConvs
    /\ Len(PieceText(x)) < FORMAT_LENGTH

SupportedPiece(x) == x.kind \in {"lit", "esc"} \/ SupportedSpecifier(x)

\* a specifier that fails classification: a star as width or precision, an
\* unrecognised conversion character, or text of FORMAT_LENGTH characters or more
FailingSpecifier(x) ==
    /\ IsSpec(x)
    /\ x.flag = << >>
    /\ \/ x.width = << "*" >>
       \/ x.prec = << ".", "*" >>
       \/ x.conv \in BadConvs
       \/ Len(PieceText(x)) >= FORMAT_LENGTH

\* the specifiers among the pieces ps, in order
SpecifiersOf(ps) == SelectSeq(ps, IsSpec)

\* the mapping table of the specification, section 4.1
ExpectedKind(x, psize) ==
    IF x.conv \in {"d", "i", "o", "u", "x", "X", "c"}
    THEN IF x.mod = << >> THEN "INTN"
         ELSE IF x.mod = << "h" >> THEN "INT16"
         ELSE IF x.mod = << "l" >> THEN "INT32"
         ELSE IF x.mod \in { << "l", "l" >>, << "L" >> } THEN "INT64"
         ELSE IF psize = 4 THEN "INT32" ELSE "INT64"
    ELSE IF x.conv \in {"e", "f", "g"} THEN "DOUBLE"
    ELSE IF x.conv = "p" THEN (IF psize = 4 THEN "UINT32" ELSE "UINT64")
    ELSE IF x.conv = "s" THEN "STRING"
    ELSE "INTSTR"

AllSupported == \A i \in 1..Len(pieces) : SupportedPiece(pieces[i])

HasFailingSpecifier ==
    \E i \in 1..Len(pieces) :
        /\ FailingSpecifier(pieces[i])
        /\ \A j \in 1..(i - 1) : SupportedPiece(pieces[j])

\* C2: when a specifier of the format string fails classification (star
\* width or precision, unrecognised conversion character, text of 21
\* characters or more), BuildArgArray returns with count -1 (never the
\* zero-argument status 0) and no array, and the array it allocated has been
\* freed exactly once, however many specifiers were classified before.
C2_FailureReturnsNothing ==
    HasFailingSpecifier /\ pc = "ret" =>
        /\ rv = -1
        /\ rv # 0
        /\ ret = NULL
        /\ heap["nas"].allocs = 1
        /\ heap["nas"].frees = 1

\* C2 witness: "%d%s%*d" failed at its third specifier, two were classified
C2_Witness ==
    /\ pc = "ret"
    /\ pieces = << Specifier(<< >>, << >>, "d"), Specifier(<< >>, << >>, "s"),
                   Specifier(<< "*" >>, << >>, "d") >>
    /\ cn = 1
    /\ rv = -1
    /\ heap["nas"].frees = 1

IsPull(e) == e[1] = "pull"
IsClassify(e) == e[1] = "classify"

\* C3: no value is pulled from the argument source before every specifier
\* has been classified successfully: a pull is preceded by the successful
\* classification of all `number` specifiers and followed by no
\* classification, the k-th pull fills descriptor k-1, a scan that returned
\* the failure -1 pulled nothing, and a scan that returned an array pulled
\* exactly one value per descriptor.
C3_PullsAfterClassification ==
    LET pulls == SelectSeq(log, IsPull)
        cls == SelectSeq(log, IsClassify)
    IN  /\ apPos = Len(pulls)
        /\ \A k \in 1..Len(pulls) : pulls[k][2] = k - 1
        /\ Len(pulls) > 0 =>
             /\ Len(cls) = number
             /\ \A k \in 1..Len(cls) : cls[k][2]
             /\ \A k \in 1..Len(log) :
                   IsClassify(log[k]) => \A j \in 1..k : ~IsPull(log[j])
        /\ pc = "ret" /\ rv = -1 => apPos = 0
        /\ pc = "ret" /\ ret = "nas" => apPos = rv /\ apPos = Len(nas)

\* C3 witness: "%d%s%lld" returned after three pulls
C3_Witness ==
    /\ pc = "ret"
    /\ ret = "nas"
    /\ rv = 3
    /\ apPos = 3
    /\ log[Len(log)] = << "pull", 2 >>

\* C3 witness of the failing scan: two specifiers classified, then a failure
C3_WitnessFailure ==
    /\ pc = "ret"
    /\ rv = -1
    /\ Len(SelectSeq(log, IsClassify)) = 3
    /\ apPos = 0

\* a specifier of the supported form that carries one printf flag character
FlaggedSpecifier(x) ==
    /\ IsSpec(x)
    /\ Len(x.flag) = 1
    /\ x.flag[1] \in FlagChars
    /\ SupportedSpecifier([x EXCEPT !.flag = << >>])
    /\ Len(PieceText(x)) < FORMAT_LENGTH

\* C11: a format string whose specifiers are of the supported form, one of
\* them at least with a flag character (-, +, space or #) before its width,
\* is scanned without failure: BuildArgArray returns the count of its
\* specifiers and each descriptor has the kind that the length modifier and
\* the conversion character give.
C11_Original ==
    /\ \A i \in 1..Len(pieces) : SupportedPiece(pieces[i]) \/ FlaggedSpecifier(pieces[i])
    /\ \E i \in 1..Len(pieces) : FlaggedSpecifier(pieces[i])
    /\ pc = "ret"
    => LET sp == SpecifiersOf(pieces)
       IN  /\ rv = Len(sp)
           /\ ret = "nas"
           /\ \A i \in 1..Len(sp) : nas[i].type = ExpectedKind(sp[i], ptrSize)

\* C12: no pass of BuildArgArray reads fmt at an offset greater than its
\* length, the offset of the terminator; the count pass does not run past
\* the terminator of a format string that ends in a lone %.
C12_Original ==
    /\ maxRead <= Len(fmt)
    /\ pc # "segv"

---------------------------------------------------------------------------
(* Claims about tidyMessageCreateInitV and tidyMessageRelease, checked     *)
(* under Spec.                                                             *)

IsCall(e) == e[1] = "call"
IsRegistered(name) == doc[name]
Returned == pc \in {"created", "released"}

\* the observers called so far, and those registered, in the order of dispatch
Calls == SelectSeq(log, IsCall)
CallNames == [k \in 1..Len(Calls) |-> Calls[k][2]]
RegisteredObservers ==
    SelectSeq(<< "reportFilter", "reportCallback", "messageCallback" >>, IsRegistered)

\* C4: when a record of level <= TidyFatal has been created, the observers
\* called are exactly the registered ones, each once, in the order
\* reportFilter, reportCallback, messageCallback, whatever the earlier
\* verdicts; each call saw every derived field of the record populated; and
\* allowMessage is the conjunction of the verdicts (true when none).
C4_AllObserversInOrder ==
    msg.level <= TidyFatal /\ Returned =>
        /\ CallNames = RegisteredObservers
        /\ \A k \in 1..Len(Calls) : Calls[k][4]
        /\ msg.allowMessage = (\A k \in 1..Len(Calls) : Calls[k][3])

\* C4 witness: three observers registered, the first returned false and the
\* two others were still called
C4_Witness ==
    /\ pc = "created"
    /\ msg.level = TidyWarning
    /\ Len(Calls) = 3
    /\ ~Calls[1][3] /\ Calls[2][3] /\ Calls[3][3]
    /\ ~msg.allowMessage

\* C5 as claimed: when a record of level > TidyFatal has been created, no
\* observer was called and allowMessage is true.
C5_Original ==
    msg.level > TidyFatal /\ Returned =>
        /\ Calls = << >>
        /\ msg.allowMessage

\* C5 amended: when a record of level > TidyFatal has been created, neither
\* reportFilter nor reportCallback was called, whichever are registered;
\* messageCallback was called exactly once if it is registered and not at
\* all otherwise, with every derived field populated; and allowMessage is
\* its verdict, true when it is not registered.
C5_DialogueOnlyMessageCallback ==
    msg.level > TidyFatal /\ Returned =>
        /\ CallNames = (IF doc.messageCallback THEN << "messageCallback" >> ELSE << >>)
        /\ \A k \in 1..Len(Calls) : Calls[k][4]
        /\ msg.allowMessage = (\A k \in 1..Len(Calls) : Calls[k][3])

\* C5 witness: a dialogue record, three observers registered, one call
C5_Witness ==
    /\ pc = "created"
    /\ msg.level = TidyDialogueSummary
    /\ doc.reportFilter /\ doc.reportCallback /\ doc.messageCallback
    /\ Len(Calls) = 1
    /\ ~msg.allowMessage

\* the composition the claim names, for one locale
Composed(pos, prefix, text) ==
    IF msg.level > TidyFatal THEN text
    ELSE IF msg.line > 0 /\ msg.column > 0 THEN pos \o prefix \o text
    ELSE prefix \o text

\* what a buffer of sizeMessageBuf units keeps of a text
Kept(text) == SubSeq(text, 1, Min(Len(text), sizeMessageBuf - 1))

\* C6 as claimed: the composed output, default and localized, is position +
\* prefix + message with line > 0 and column > 0 at a level <= TidyFatal,
\* prefix + message with line <= 0 or column <= 0 at such a level, and the
\* message alone at a level > TidyFatal.
C6_Original ==
    "messageOutput" \in msg.set =>
        /\ msg.messageOutputDefault =
             Composed(msg.messagePosDefault, msg.messagePrefixDefault, msg.messageDefault)
        /\ msg.messageOutput =
             Composed(msg.messagePos, msg.messagePrefix, msg.message)

\* C6 amended: the composed output, default and localized, is what the
\* buffer of sizeMessageBuf units keeps of that composition: all of it when
\* it fits, its leading characters otherwise; the pattern is the same for
\* both locales.
C6_ComposedWithinBuffer ==
    "messageOutput" \in msg.set =>
        /\ msg.messageOutputDefault =
             Kept(Composed(msg.messagePosDefault, msg.messagePrefixDefault, msg.messageDefault))
        /\ msg.messageOutput =
             Kept(Composed(msg.messagePos, msg.messagePrefix, msg.message))

\* C6 witness: a dialogue record with a position whose output is the message
C6_Witness ==
    /\ pc = "created"
    /\ msg.level = TidyDialogueSummary
    /\ msg.line = 5 /\ msg.column = 10
    /\ msg.messagePrefix # << >> /\ msg.messagePos # << >>
    /\ msg.messageOutput = << "4", "2", "b", "4", "2" >>
    /\ msg.messageOutputDefault = << "4", "2", "a", "4", "2" >>

\* C7 as claimed: after tidyMessageRelease every buffer allocated during the
\* creation has been freed exactly once, and nothing else has been freed.
C7_Original ==
    pc = "released" =>
        /\ \A b \in OwnedBuffers : heap[b].frees = heap[b].allocs
        /\ \A b \in BorrowedObjects : heap[b].frees = 0

---------------------------------------------------------------------------
(* Claims about the iteration and the getters, checked under SpecArgs.     *)

\* C8: getMessageArguments returns the cursor 1 for a record with argcount
\* N > 0 and 0 otherwise (also for the failed scan, N = -1); after k calls of
\* getNextMessageArgument from there the indices returned are 0, 1, ..., k-1,
\* the cursor is k + 1 while k < N, and it is 0 exactly from the N-th call
\* on, so that the iteration ends after exactly N calls.
C8_IterationVisitsEachArgument ==
    obs.iterating =>
        LET k == Len(obs.items)
            N == msg.argcount
        IN  /\ obs.items = [i \in 1..k |-> i - 1]
            /\ k <= Max(N, 0)
            /\ iter = (IF k < N THEN k + 1 ELSE 0)

\* C8 witness: three arguments, three calls, the cursor is 0
C8_Witness ==
    /\ obs.fn = "getNextMessageArgument"
    /\ msg.argcount = 3
    /\ obs.items = << 0, 1, 2 >>
    /\ iter = 0

\* C9: every getter called with an index outside 0..argcount-1 fails an
\* assertion, and does not read the argument array.
C9_Original ==
    obs.fn \in Getters /\ (obs.argNum < 0 \/ obs.argNum >= msg.argcount) =>
        obs.outcome = "assert"

UnsignedTypes == {"UINTN", "UINT16", "UINT32", "UINT64"}

\* the value the third pass stored in descriptor a, widened to 64 bits
StoredValue(a) ==
    IF a.type \in {"INTN", "INT16", "INT32"} THEN SExt(Member(a.u, 2), 4)
    ELSE IF a.type \in {"UINTN", "UINT16", "UINT32"} THEN ZExt(Member(a.u, 2), 4)
    ELSE a.u

\* C10: with a 32-bit int, getArgValueInt accepts a 16-bit signed
\* descriptor (%hd) and returns the value stored, and it accepts a
\* descriptor of an unsigned kind exactly when the value stored is at most
\* INT_MAX.
C10_Original ==
    obs.fn = "getArgValueInt" /\ InArray(obs.argNum) =>
        LET a == nas[obs.argNum + 1]
        IN  /\ a.type = "INT16" =>
                 obs.outcome = "ok" /\ SExt(obs.value, 4) = StoredValue(a)
            /\ a.type \in UnsignedTypes =>
                 (obs.outcome = "ok" <=> LeqIntMax(StoredValue(a)))

SignedTypes == {"INTN", "INT16", "INT32", "INT64"}

\* an integer as a number: whether it is below zero, and its 64-bit pattern
StoredNumber(a) ==
    [neg |-> a.type \in SignedTypes /\ IsNegative(Member(a.u, MemberLimbs(a.type, ptrSize))),
     bits |-> StoredValue(a)]
ReturnedNumber ==
    IF obs.fn = "getArgValueInt"
    THEN [neg |-> IsNegative(obs.value), bits |-> SExt(obs.value, 4)]
    ELSE [neg |-> FALSE, bits |-> ZExt(obs.value, 4)]

\* C13: with a 32-bit int, when getArgValueInt or getArgValueUInt returns
\* without a failed assertion, the number returned equals the number stored
\* in the descriptor, whatever its integer kind; a 64-bit value that does
\* not fit the int is refused and never returned truncated.
C13_Original ==
    /\ obs.fn \in {"getArgValueInt", "getArgValueUInt"}
    /\ InArray(obs.argNum)
    /\ obs.outcome = "ok"
    => ReturnedNumber = StoredNumber(nas[obs.argNum + 1])

\* the specifier of the descriptor argNum is %u, %x, %X or %o, no modifier
UnsignedConversion(argNum) ==
    LET sp == SpecifiersOf(pieces)
    IN  /\ argNum + 1 \in 1..Len(sp)
        /\ sp[argNum + 1].conv \in {"u", "x", "X", "o"}
        /\ sp[argNum + 1].mod = << >>

\* C14: the descriptor BuildArgArray produces for %u, %x, %X or %o without
\* length modifier is read by getArgValueUInt without a failed assertion.
C14_Original ==
    /\ obs.fn = "getArgValueUInt"
    /\ InArray(obs.argNum)
    /\ UnsignedConversion(obs.argNum)
    => obs.outcome = "ok"

============================================================================
